---- MODULE Spec2Model ----
(***************************************************************************)
(* PyCart (src/pycart.py): the Clock broadcast thread with its observer    *)
(* dictionary, and the pads (PyCartButton) with their playback threads     *)
(* (PyCartAudio).                                                          *)
(*                                                                         *)
(* Strings the program formats are sequences of one-character strings, so  *)
(* that formatting is computed digit by digit.                             *)
(***************************************************************************)
EXTENDS Integers, Sequences, FiniteSets, TLC

\* ------------------------------------------------------------------ bounds

\* Longest entries array of the callbacks dict the model lets grow: an insert
\* of a new key is taken only while the array is shorter.
MaxEntries == 3

\* Playback threads the model lets one pad start, over a whole run.
MaxPlays == 2

\* entries of a configuration file
MaxConf == 2

\* ------------------------------------------------------------ clock state

VARIABLES
    enabled,      \* Clock.enabled
    callbacks,    \* Clock.callbacks: the dict's entries array, in insertion order, deleted entries left as holes
    clockPc,      \* position of the Clock thread in Clock.run
    now,          \* local `now` of Clock.run
    it,           \* the dict value iterator of the for loop of Clock.run
    cb,           \* local `cb` of Clock.run: the entry whose value is about to be called
    calls,        \* the observer invocations of the current tick, in order
    tickChanged,  \* a registration call changed the dict since the current tick's iteration began (history)
    clockExc,     \* the exception that ended Clock.run, "none" otherwise
    uiPc,         \* position of the UI thread: "idle" between handlers
    uiArg,        \* arguments of the handler the UI thread is in
    uiExc,        \* the exception the UI thread's last call raised to its caller, "none" when it returned
    stopReturned, \* some call of Clock.stop has returned (history)
    file,         \* per pad, PyCartButton._file
    text,         \* per pad, the button's text option
    bg,           \* per pad, the button's bg option
    state,        \* per pad, the button's state option
    units,        \* per pad, the position of every PyCartAudio.run thread started for it, in start order
    trace,        \* per pad, the _on_start / _on_stop calls made so far, in order (history)
    overlap,      \* per pad, a thread was started while an earlier one had not ended (history)
    conf,         \* PyCart.open: conf["pads"], the entries of the file being opened (empty outside open)
    idx,          \* PyCart.open: the loop's idx
    tops,         \* per uuid key of show_clock, its Toplevel: "none", "open" or "destroyed"
    destroyed,    \* the main window has been destroyed (master.destroy())
    shutdown      \* the steps PyCart.quit has completed, in order (history)

clockVars == <<enabled, callbacks, clockPc, now, it, cb, calls, tickChanged, clockExc, stopReturned>>

appVars == <<conf, idx, tops, destroyed, shutdown>>

\* ------------------------------------------------------- time formatting

DigitChar(d) == <<"0", "1", "2", "3", "4", "5", "6", "7", "8", "9">>[d + 1]

RECURSIVE Digits(_)
\* str(n) for n >= 0
Digits(n) == IF n < 10 THEN <<DigitChar(n)>> ELSE Digits(n \div 10) \o <<DigitChar(n % 10)>>

\* the format spec 02 (and strftime's %H, %M, %S): zero-padded to width 2, never cut
ZeroPad2(n) == IF Len(Digits(n)) < 2 THEN <<"0">> \o Digits(n) ELSE Digits(n)

sec_remaining(t) == (60 - t.second) % 60

min_remaining_NoCarry(t) == 60 - t.minute - 1

min_remaining(t) == (60 + (60 - t.second) \div 60) - t.minute - 1

\* now.strftime("%H:%M:%S")
current_time(t) == ZeroPad2(t.hour) \o <<":">> \o ZeroPad2(t.minute) \o <<":">> \o ZeroPad2(t.second)

\* f"-{min_remaining:02}:{sec_remaining:02}"
remaining(t) == <<"-">> \o ZeroPad2(min_remaining(t)) \o <<":">> \o ZeroPad2(sec_remaining(t))

\* the values datetime.now() can return (date left out)
Instants == [hour : 0..23, minute : 0..59, second : 0..59]

\* the instant the clock reads in the specifications that also move the UI
\* thread (SpecTime reads them all)
SampleInstants == {[hour |-> 14, minute |-> 59, second |-> 47]}

NoInstant == [hour |-> 0, minute |-> 0, second |-> 0]

\* ------------------------------------------------------ the callbacks dict

\* registration keys: "mini" (create_clock) and the uuid keys of show_clock
Names == {"mini", "uuid1", "uuid2"}

\* the callables registered
Callables == {"update", "update2"}

\* a deleted entry of the entries array
Hole == [key |-> "", val |-> ""]

NoIterator == [used |-> 0, pos |-> 0, len |-> 0]

Live(d) == {i \in 1..Len(d) : d[i] # Hole}

Keys(d) == {d[i].key : i \in Live(d)}

Used(d) == Cardinality(Live(d))

IndexOf(d, k) == CHOOSE i \in Live(d) : d[i].key = k

\* d[k] = v
DictSet(d, k, v) ==
    IF k \in Keys(d) THEN [d EXCEPT ![IndexOf(d, k)].val = v]
    ELSE Append(d, [key |-> k, val |-> v])

\* del d[k], for k in d
DictDel(d, k) == [d EXCEPT ![IndexOf(d, k)] = Hole]

\* iter(d.values())
IterNew(d) == [used |-> Used(d), pos |-> 1, len |-> Used(d)]

\* the entries the iterator has still to visit
Ahead(d, i) == {j \in Live(d) : j >= i.pos}

NextIndex(d, i) == CHOOSE j \in Ahead(d, i) : \A k \in Ahead(d, i) : j <= k

\* ------------------------------------------------------- the Clock thread

\* the current tick's iterator exists, or the tick is over and the next has not begun
InTick == clockPc \in {"next", "call", "sleep", "failed"}

ClockLoopTest_Forever ==
    /\ clockPc = "loop"
    /\ clockPc' = "compute"
    /\ UNCHANGED <<enabled, callbacks, now, it, cb, calls, tickChanged, clockExc, stopReturned>>

\* while self.enabled:
ClockLoopTest ==
    /\ clockPc = "loop"
    /\ clockPc' = IF enabled THEN "compute" ELSE "terminated"
    /\ UNCHANGED <<enabled, callbacks, now, it, cb, calls, tickChanged, clockExc, stopReturned>>

\* now = datetime.now(), sec_remaining, min_remaining
ClockCompute(instants) ==
    /\ clockPc = "compute"
    /\ \E t \in instants : now' = t
    /\ clockPc' = "iter"
    /\ calls' = <<>>
    /\ tickChanged' = FALSE
    /\ UNCHANGED <<enabled, callbacks, it, cb, clockExc, stopReturned>>

\* for cb in self.callbacks.values(): the iterator is made
ClockIter ==
    /\ clockPc = "iter"
    /\ it' = IterNew(callbacks)
    /\ clockPc' = "next"
    /\ tickChanged' = FALSE
    /\ UNCHANGED <<enabled, callbacks, now, cb, calls, clockExc, stopReturned>>

\* for cb in self.callbacks.values(): the iterator's next
ClockForNext ==
    /\ clockPc = "next"
    /\ IF it.used # Used(callbacks) \/ (Ahead(callbacks, it) # {} /\ it.len = 0)
       THEN \* RuntimeError: dictionary changed size (or keys changed) during iteration
            /\ clockPc' = "failed"
            /\ clockExc' = "RuntimeError"
            /\ UNCHANGED <<it, cb>>
       ELSE IF Ahead(callbacks, it) = {}
       THEN /\ clockPc' = "sleep"
            /\ UNCHANGED <<it, cb, clockExc>>
       ELSE /\ cb' = callbacks[NextIndex(callbacks, it)]
            /\ it' = [it EXCEPT !.pos = NextIndex(callbacks, it) + 1, !.len = it.len - 1]
            /\ clockPc' = "call"
            /\ UNCHANGED clockExc
    /\ UNCHANGED <<enabled, callbacks, now, calls, tickChanged, stopReturned>>

\* cb(current_time=..., remaining=...), with no try around it in run
ClockInvoke(raises) ==
    /\ clockPc = "call"
    /\ calls' = Append(calls, [key |-> cb.key, val |-> cb.val,
                               current_time |-> current_time(now), remaining |-> remaining(now)])
    /\ IF raises
       THEN clockPc' = "failed" /\ clockExc' = "ObserverError"
       ELSE clockPc' = "next" /\ UNCHANGED clockExc
    /\ UNCHANGED <<enabled, callbacks, now, it, cb, tickChanged, stopReturned>>

\* the call of any observer: it returns or raises
ClockCall == \E raises \in BOOLEAN : ClockInvoke(raises)

\* The labels an update closure of the application configures are gone: those of
\* create_clock with the main window, those of show_clock with their Toplevel.
WidgetsGone(key) == destroyed \/ (key \in DOMAIN tops /\ tops[key] = "destroyed")

\* the call of an update closure: Label.config raises TclError on a destroyed widget
ClockCallUpdate == ClockInvoke(WidgetsGone(cb.key))

\* time.sleep(0.25); the locals of the tick are dead from here on
ClockSleep ==
    /\ clockPc = "sleep"
    /\ clockPc' = "loop"
    /\ now' = NoInstant
    /\ it' = NoIterator
    /\ cb' = Hole
    /\ calls' = <<>>
    /\ tickChanged' = FALSE
    /\ UNCHANGED <<enabled, callbacks, clockExc, stopReturned>>

\* ------------------------------------------------- the Clock's methods

NoArg == [pad |-> 0, path |-> <<>>]

add_callback(name, callback) ==
    /\ uiPc = "idle"
    /\ name \in Keys(callbacks) \/ Len(callbacks) < MaxEntries
    /\ callbacks' = DictSet(callbacks, name, callback)
    /\ tickChanged' = (tickChanged \/ InTick)
    /\ uiExc' = "none"
    /\ UNCHANGED <<enabled, clockPc, now, it, cb, calls, clockExc, stopReturned, uiPc, uiArg>>

remove_callback_Clear(name) ==
    /\ uiPc = "idle"
    /\ IF name \in Keys(callbacks)
       THEN /\ callbacks' = <<>>
            /\ tickChanged' = (tickChanged \/ InTick)
            /\ uiExc' = "none"
       ELSE /\ uiExc' = "KeyError"
            /\ UNCHANGED <<callbacks, tickChanged>>
    /\ UNCHANGED <<enabled, clockPc, now, it, cb, calls, clockExc, stopReturned, uiPc, uiArg>>

remove_callback(name) ==
    /\ uiPc = "idle"
    /\ IF name \in Keys(callbacks)
       THEN /\ callbacks' = DictDel(callbacks, name)
            /\ tickChanged' = (tickChanged \/ InTick)
            /\ uiExc' = "none"
       ELSE /\ uiExc' = "KeyError"
            /\ UNCHANGED <<callbacks, tickChanged>>
    /\ UNCHANGED <<enabled, clockPc, now, it, cb, calls, clockExc, stopReturned, uiPc, uiArg>>

stop_Toggle ==
    /\ uiPc = "idle"
    /\ enabled' = ~enabled
    /\ uiPc' = "join"
    /\ UNCHANGED <<callbacks, clockPc, now, it, cb, calls, tickChanged, clockExc, stopReturned, uiArg, uiExc>>

\* Clock.stop: self.enabled = False
stop ==
    /\ uiPc = "idle"
    /\ enabled' = FALSE
    /\ uiPc' = "join"
    /\ UNCHANGED <<callbacks, clockPc, now, it, cb, calls, tickChanged, clockExc, stopReturned, uiArg, uiExc>>

ThreadEnded == clockPc \in {"terminated", "failed"}

stop_join_NoWait ==
    /\ uiPc = "join"
    /\ uiPc' = "idle"
    /\ stopReturned' = TRUE
    /\ uiExc' = "none"
    /\ UNCHANGED <<enabled, callbacks, clockPc, now, it, cb, calls, tickChanged, clockExc, uiArg>>

\* Clock.stop: self.join() returns once run has ended
stop_join ==
    /\ uiPc = "join"
    /\ ThreadEnded
    /\ uiPc' = "idle"
    /\ stopReturned' = TRUE
    /\ uiExc' = "none"
    /\ UNCHANGED <<enabled, callbacks, clockPc, now, it, cb, calls, tickChanged, clockExc, uiArg>>

\* ---------------------------------------------------------------- the pads

\* the pads of the run (ids of create_widgets)
Pads == DOMAIN file

padVars == <<file, text, bg, state, units, trace, overlap>>

uiVars == <<uiPc, uiArg, uiExc>>

\* The files the user can name: path components, and what the file holds.
ValidPaths == {<<"home", "a.wav">>, <<"home", "sfx", "b.wav">>}

Paths == ValidPaths \cup {<<"home", "c.aiff">>, <<"home", "empty.wav">>, <<"home", "notes.txt">>, <<"home", "missing.wav">>}

Content(path) ==
    CASE path \in ValidPaths -> "wav"
      [] path = <<"home", "c.aiff">> -> "aiff"
      [] path = <<"home", "empty.wav">> -> "empty"
      [] path = <<"home", "notes.txt">> -> "text"
      [] OTHER -> "missing"

\* None
NoFile == [file |-> <<>>]

Path_name_First(path) == path[1]

\* Path(fname).name
Path_name(path) == path[Len(path)]

\* str(id), for the ids 1..9 of the grid
IdText(id) == DigitChar(id)

\* PyCartAudio(fname, ...): the object made, or the exception raised.
\* sndhdr.whathdr opens the file (OSError when it cannot) and returns None for
\* what it does not recognise; WaveObject.from_wave_file reads a RIFF/WAVE file.
PyCartAudio_init(path) ==
    CASE Content(path) = "missing" -> [exc |-> "FileNotFoundError", obj |-> NoFile]
      [] Content(path) \in {"empty", "text"} -> [exc |-> "PyCartError", obj |-> NoFile]
      [] Content(path) = "aiff" -> [exc |-> "wave.Error", obj |-> NoFile]
      [] OTHER -> [exc |-> "none", obj |-> [file |-> path]]

\* do_load up to the end of its try block
do_load(p, fname) ==
    /\ uiPc = "idle"
    /\ LET made == PyCartAudio_init(fname)
       IN  CASE made.exc = "none" ->
                  /\ file' = [file EXCEPT ![p] = made.obj]
                  /\ uiPc' = "do_load_config"
                  /\ uiArg' = [pad |-> p, path |-> fname]
                  /\ uiExc' = "none"
             [] made.exc = "PyCartError" ->
                  \* except PyCartError: messagebox.showerror, a modal dialog
                  /\ uiPc' = "showerror"
                  /\ uiArg' = [pad |-> p, path |-> fname]
                  /\ uiExc' = "none"
                  /\ UNCHANGED file
             [] OTHER ->
                  \* no handler in do_load: the exception leaves it
                  /\ uiExc' = made.exc
                  /\ UNCHANGED <<file, uiPc, uiArg>>
    /\ UNCHANGED <<text, bg, state, units, trace, overlap>>

\* do_load's else block: self.config(text=Path(fname).name, bg="green")
do_load_config ==
    /\ uiPc = "do_load_config"
    /\ text' = [text EXCEPT ![uiArg.pad] = Path_name(uiArg.path)]
    /\ bg' = [bg EXCEPT ![uiArg.pad] = "green"]
    /\ uiPc' = "idle"
    /\ uiArg' = NoArg
    /\ UNCHANGED <<file, state, units, trace, overlap, uiExc>>

\* the user closes the error dialog, and do_load returns
showerror_return ==
    /\ uiPc = "showerror"
    /\ uiPc' = "idle"
    /\ uiArg' = NoArg
    /\ UNCHANGED <<padVars, uiExc>>

\* ------------------------------------------------------------ PyCart.open

\* The tables of a configuration's "pads" array: with a "file" key, or without.
Entries == {[file |-> path] : path \in Paths} \cup {[label |-> <<"intro">>]}

\* open, after the dialog gave a file name and load_conf parsed it
open(pads) ==
    /\ uiPc = "idle"
    /\ conf' = pads
    /\ idx' = 0
    /\ uiPc' = "open_for"
    /\ uiExc' = "none"
    /\ UNCHANGED <<padVars, uiArg>>

\* an exception leaves the for loop, and open
open_raise(exc) ==
    /\ uiExc' = exc
    /\ uiPc' = "idle"
    /\ uiArg' = NoArg
    /\ conf' = <<>>
    /\ idx' = 0

\* one turn of the loop: self.pads[idx].do_load(pad["file"]), up to the end of
\* do_load's try block
open_for ==
    /\ uiPc = "open_for"
    /\ idx < Len(conf)
    /\ LET pad == conf[idx + 1]
           p == idx + 1
       IN  IF p \notin Pads
           THEN open_raise("IndexError") /\ UNCHANGED file
           ELSE IF "file" \notin DOMAIN pad
           THEN open_raise("KeyError") /\ UNCHANGED file
           ELSE LET made == PyCartAudio_init(pad.file)
                IN  CASE made.exc = "none" ->
                           /\ file' = [file EXCEPT ![p] = made.obj]
                           /\ uiPc' = "open_do_load_config"
                           /\ uiArg' = [pad |-> p, path |-> pad.file]
                           /\ UNCHANGED <<uiExc, conf, idx>>
                      [] made.exc = "PyCartError" ->
                           /\ uiPc' = "open_showerror"
                           /\ uiArg' = [pad |-> p, path |-> pad.file]
                           /\ UNCHANGED <<file, uiExc, conf, idx>>
                      [] OTHER ->
                           \* no handler in do_load, none in open
                           open_raise(made.exc) /\ UNCHANGED file
    /\ UNCHANGED <<text, bg, state, units, trace, overlap>>

\* do_load's else block, and the loop's next idx
open_do_load_config ==
    /\ uiPc = "open_do_load_config"
    /\ text' = [text EXCEPT ![uiArg.pad] = Path_name(uiArg.path)]
    /\ bg' = [bg EXCEPT ![uiArg.pad] = "green"]
    /\ uiPc' = "open_for"
    /\ uiArg' = NoArg
    /\ idx' = idx + 1
    /\ UNCHANGED <<file, state, units, trace, overlap, uiExc, conf>>

\* the user closes do_load's error dialog, and the loop goes on
open_showerror_return ==
    /\ uiPc = "open_showerror"
    /\ uiPc' = "open_for"
    /\ uiArg' = NoArg
    /\ idx' = idx + 1
    /\ UNCHANGED <<padVars, uiExc, conf>>

\* the loop is exhausted
open_return ==
    /\ uiPc = "open_for"
    /\ idx = Len(conf)
    /\ uiPc' = "idle"
    /\ conf' = <<>>
    /\ idx' = 0
    /\ UNCHANGED <<padVars, uiArg, uiExc>>

Running(p) == {u \in 1..Len(units[p]) : units[p][u] \notin {"done", "failed"}}

\* PyCartAudio.start: a new thread on run
PyCartAudio_start(p) ==
    /\ units' = [units EXCEPT ![p] = Append(units[p], "start_callback")]
    /\ overlap' = [overlap EXCEPT ![p] = overlap[p] \/ Running(p) # {}]

\* PyCartButton.play (the menu's Play command calls it directly)
play(p) ==
    /\ uiPc = "idle"
    /\ file[p] # NoFile => Len(units[p]) < MaxPlays
    /\ IF file[p] # NoFile
       THEN PyCartAudio_start(p)
       ELSE UNCHANGED <<units, overlap>>
    /\ uiExc' = "none"
    /\ UNCHANGED <<file, text, bg, state, trace, uiPc, uiArg>>

\* PyCartButton.on_click (left click, or a digit key through PyCart.on_key)
on_click(p) ==
    /\ uiPc = "idle"
    /\ IF state[p] = "disabled"
       THEN UNCHANGED <<padVars, uiVars>>
       ELSE play(p)

\* reset: self._file = None
reset(p) ==
    /\ uiPc = "idle"
    /\ file' = [file EXCEPT ![p] = NoFile]
    /\ uiPc' = "reset_config"
    /\ uiArg' = [pad |-> p, path |-> <<>>]
    /\ uiExc' = "none"
    /\ UNCHANGED <<text, bg, state, units, trace, overlap>>

reset_config_KeepBg ==
    /\ uiPc = "reset_config"
    /\ text' = [text EXCEPT ![uiArg.pad] = IdText(uiArg.pad)]
    /\ uiPc' = "idle"
    /\ uiArg' = NoArg
    /\ UNCHANGED <<file, bg, state, units, trace, overlap, uiExc>>

\* reset: self.config(text=self._id, bg=self._default_bg)
reset_config ==
    /\ uiPc = "reset_config"
    /\ text' = [text EXCEPT ![uiArg.pad] = IdText(uiArg.pad)]
    /\ bg' = [bg EXCEPT ![uiArg.pad] = "default"]
    /\ uiPc' = "idle"
    /\ uiArg' = NoArg
    /\ UNCHANGED <<file, state, units, trace, overlap, uiExc>>

\* ------------------------------------------------- the playback threads

UnitAt(p, u, pc) == u \in 1..Len(units[p]) /\ units[p][u] = pc

UnitTo(p, u, pc) == units' = [units EXCEPT ![p][u] = pc]

run_start_callback_Skipped(p, u) ==
    /\ UnitAt(p, u, "start_callback")
    /\ UnitTo(p, u, "play")
    /\ UNCHANGED <<file, text, bg, state, trace, overlap>>

\* run: self.start_callback(self), which is _on_start: config(state=DISABLED, bg="red");
\* on a destroyed button config raises TclError, which ends the thread
run_start_callback(p, u) ==
    /\ UnitAt(p, u, "start_callback")
    /\ trace' = [trace EXCEPT ![p] = Append(trace[p], <<"on_start", u>>)]
    /\ IF destroyed
       THEN UnitTo(p, u, "failed") /\ UNCHANGED <<state, bg>>
       ELSE /\ state' = [state EXCEPT ![p] = "disabled"]
            /\ bg' = [bg EXCEPT ![p] = "red"]
            /\ UnitTo(p, u, "play")
    /\ UNCHANGED <<file, text, overlap>>

\* run: play_obj = self.wav.play(), audio output begins
run_play(p, u) ==
    /\ UnitAt(p, u, "play")
    /\ UnitTo(p, u, "wait_done")
    /\ UNCHANGED <<file, text, bg, state, trace, overlap>>

\* run: play_obj.wait_done() returns, the sample has played to its end
run_wait_done(p, u) ==
    /\ UnitAt(p, u, "wait_done")
    /\ UnitTo(p, u, "stop_callback")
    /\ UNCHANGED <<file, text, bg, state, trace, overlap>>

\* run: self.stop_callback(self), which is _on_stop: config(state=NORMAL, bg="green");
\* on a destroyed button config raises TclError, which ends the thread
run_stop_callback(p, u) ==
    /\ UnitAt(p, u, "stop_callback")
    /\ trace' = [trace EXCEPT ![p] = Append(trace[p], <<"on_stop", u>>)]
    /\ IF destroyed
       THEN UnitTo(p, u, "failed") /\ UNCHANGED <<state, bg>>
       ELSE /\ state' = [state EXCEPT ![p] = "normal"]
            /\ bg' = [bg EXCEPT ![p] = "green"]
            /\ UnitTo(p, u, "done")
    /\ UNCHANGED <<file, text, overlap>>

\* ------------------------------------------------------ PyCart.show_clock

\* show_clock: a Toplevel under a fresh uuid key, its labels and Close button,
\* then self.clock.add_callback(clock_id, update)
show_clock(clock_id) ==
    /\ tops[clock_id] = "none"
    /\ add_callback(clock_id, "update")
    /\ tops' = [tops EXCEPT ![clock_id] = "open"]
    /\ UNCHANGED <<conf, idx, destroyed, shutdown>>

\* close, the command of the Close button: top.destroy()
close(clock_id) ==
    /\ uiPc = "idle"
    /\ tops[clock_id] = "open"
    /\ tops' = [tops EXCEPT ![clock_id] = "destroyed"]
    /\ uiPc' = "close_remove"
    /\ uiArg' = [key |-> clock_id]
    /\ uiExc' = "none"
    /\ UNCHANGED <<clockVars, conf, idx, destroyed, shutdown>>

\* close: self.clock.remove_callback(clock_id)
close_remove ==
    /\ uiPc = "close_remove"
    /\ IF uiArg.key \in Keys(callbacks)
       THEN /\ callbacks' = DictDel(callbacks, uiArg.key)
            /\ tickChanged' = (tickChanged \/ InTick)
            /\ UNCHANGED uiExc
       ELSE /\ uiExc' = "KeyError"
            /\ UNCHANGED <<callbacks, tickChanged>>
    /\ uiPc' = "idle"
    /\ uiArg' = NoArg
    /\ UNCHANGED <<enabled, clockPc, now, it, cb, calls, clockExc, stopReturned>>
    /\ UNCHANGED appVars

\* ------------------------------------------------------------ PyCart.quit

\* the Toplevels that go with the main window
DestroyAll(windows) == [k \in DOMAIN windows |-> IF windows[k] = "open" THEN "destroyed" ELSE windows[k]]

\* quit: self.clock.stop(), which sets enabled = False
quit ==
    /\ uiPc = "idle"
    /\ enabled' = FALSE
    /\ uiPc' = "quit_join"
    /\ uiExc' = "none"
    /\ UNCHANGED <<callbacks, clockPc, now, it, cb, calls, tickChanged, clockExc, stopReturned, uiArg>>
    /\ UNCHANGED appVars

quit_join_NoWait ==
    /\ uiPc = "quit_join"
    /\ stopReturned' = TRUE
    /\ shutdown' = Append(shutdown, "clock.stop")
    /\ uiPc' = "quit_stop_all"
    /\ UNCHANGED <<enabled, callbacks, clockPc, now, it, cb, calls, tickChanged, clockExc, uiArg, uiExc>>
    /\ UNCHANGED <<conf, idx, tops, destroyed>>

\* quit: the join() of self.clock.stop() returns once the Clock thread has ended
quit_join ==
    /\ uiPc = "quit_join"
    /\ ThreadEnded
    /\ stopReturned' = TRUE
    /\ shutdown' = Append(shutdown, "clock.stop")
    /\ uiPc' = "quit_stop_all"
    /\ UNCHANGED <<enabled, callbacks, clockPc, now, it, cb, calls, tickChanged, clockExc, uiArg, uiExc>>
    /\ UNCHANGED <<conf, idx, tops, destroyed>>

\* quit: sa.stop_all() stops the audio of every play object; a thread in
\* wait_done returns from it when it next runs, one not yet in play is not touched
quit_stop_all ==
    /\ uiPc = "quit_stop_all"
    /\ shutdown' = Append(shutdown, "sa.stop_all")
    /\ uiPc' = "quit_destroy"
    /\ UNCHANGED <<clockVars, uiArg, uiExc, conf, idx, tops, destroyed>>

\* quit: self.master.destroy(); mainloop returns, no event is handled after it
quit_destroy ==
    /\ uiPc = "quit_destroy"
    /\ destroyed' = TRUE
    /\ tops' = DestroyAll(tops)
    /\ shutdown' = Append(shutdown, "master.destroy")
    /\ uiPc' = "exited"
    /\ UNCHANGED <<clockVars, uiArg, uiExc, conf, idx>>

\* ---------------------------------------------------------- specifications

vars == <<enabled, callbacks, clockPc, now, it, cb, calls, tickChanged, clockExc, stopReturned,
          uiPc, uiArg, uiExc, file, text, bg, state, units, trace, overlap,
          conf, idx, tops, destroyed, shutdown>>

\* PyCartButton.__init__, for the pads `ids` of create_widgets
PadInit(ids) ==
    /\ file = [p \in ids |-> NoFile]
    /\ text = [p \in ids |-> IdText(p)]
    /\ bg = [p \in ids |-> "default"]
    /\ state = [p \in ids |-> "normal"]
    /\ units = [p \in ids |-> <<>>]
    /\ trace = [p \in ids |-> <<>>]
    /\ overlap = [p \in ids |-> FALSE]

\* The pads share nothing but the UI thread: the specifications follow pad 1.
OnePad == {1}

\* Clock.__init__ and the start() that follows it in PyCart.__init__
ClockInit ==
    /\ enabled = TRUE
    /\ callbacks = <<>>
    /\ clockPc = "loop"
    /\ now = NoInstant
    /\ it = NoIterator
    /\ cb = Hole
    /\ calls = <<>>
    /\ tickChanged = FALSE
    /\ clockExc = "none"
    /\ stopReturned = FALSE

UiInit ==
    /\ uiPc = "idle"
    /\ uiArg = NoArg
    /\ uiExc = "none"

\* the uuid keys show_clock draws
Uuids == Names \ {"mini"}

\* PyCart.__init__: the main window is up, no studio clock is open
AppInit ==
    /\ conf = <<>>
    /\ idx = 0
    /\ tops = [k \in Uuids |-> "none"]
    /\ destroyed = FALSE
    /\ shutdown = <<>>

\* The Clock, its thread started, under any caller of its methods.
InitClock == ClockInit /\ UiInit /\ PadInit(OnePad) /\ AppInit

NextClock ==
    \/ ClockLoopTest /\ UNCHANGED <<uiVars, padVars, appVars>>
    \/ ClockCompute(SampleInstants) /\ UNCHANGED <<uiVars, padVars, appVars>>
    \/ ClockIter /\ UNCHANGED <<uiVars, padVars, appVars>>
    \/ ClockForNext /\ UNCHANGED <<uiVars, padVars, appVars>>
    \/ ClockCall /\ UNCHANGED <<uiVars, padVars, appVars>>
    \/ ClockSleep /\ UNCHANGED <<uiVars, padVars, appVars>>
    \/ \E name \in Names, callback \in Callables : add_callback(name, callback) /\ UNCHANGED <<padVars, appVars>>
    \/ \E name \in Names : remove_callback(name) /\ UNCHANGED <<padVars, appVars>>
    \/ stop /\ UNCHANGED <<padVars, appVars>>
    \/ stop_join /\ UNCHANGED <<padVars, appVars>>

SpecClock == InitClock /\ [][NextClock]_vars

\* a step of the Clock thread
ClockThread ==
    /\ \/ ClockLoopTest
       \/ ClockCompute(SampleInstants)
       \/ ClockIter
       \/ ClockForNext
       \/ ClockCall
       \/ ClockSleep
    /\ UNCHANGED <<uiVars, padVars, appVars>>

\* the observers registered and removed while stop() is followed
StopNames == {"mini", "uuid1"}

NextStop ==
    \/ ClockLoopTest /\ UNCHANGED <<uiVars, padVars, appVars>>
    \/ ClockCompute(SampleInstants) /\ UNCHANGED <<uiVars, padVars, appVars>>
    \/ ClockIter /\ UNCHANGED <<uiVars, padVars, appVars>>
    \/ ClockForNext /\ UNCHANGED <<uiVars, padVars, appVars>>
    \/ ClockCall /\ UNCHANGED <<uiVars, padVars, appVars>>
    \/ ClockSleep /\ UNCHANGED <<uiVars, padVars, appVars>>
    \/ \E name \in StopNames : add_callback(name, "update") /\ UNCHANGED <<padVars, appVars>>
    \/ \E name \in StopNames : remove_callback(name) /\ UNCHANGED <<padVars, appVars>>
    \/ stop /\ UNCHANGED <<padVars, appVars>>
    \/ stop_join /\ UNCHANGED <<padVars, appVars>>

\* The Clock with both threads scheduled: the Clock thread is never held up for
\* ever (its sleep ends, its observers return or raise), and the join() of stop
\* returns once the thread it waits for has ended.
SpecStop ==
    /\ InitClock
    /\ [][NextStop]_vars
    /\ WF_vars(ClockThread)
    /\ WF_vars(stop_join /\ UNCHANGED <<padVars, appVars>>)

\* The Clock thread alone, ticking at every instant, the "mini" observer of
\* create_clock registered.
InitTime ==
    /\ enabled = TRUE
    /\ callbacks = <<[key |-> "mini", val |-> "update"]>>
    /\ clockPc = "loop"
    /\ now = NoInstant
    /\ it = NoIterator
    /\ cb = Hole
    /\ calls = <<>>
    /\ tickChanged = FALSE
    /\ clockExc = "none"
    /\ stopReturned = FALSE
    /\ UiInit
    /\ PadInit(OnePad)
    /\ AppInit

NextTime ==
    \/ ClockLoopTest /\ UNCHANGED <<uiVars, padVars, appVars>>
    \/ ClockCompute(Instants) /\ UNCHANGED <<uiVars, padVars, appVars>>
    \/ ClockIter /\ UNCHANGED <<uiVars, padVars, appVars>>
    \/ ClockForNext /\ UNCHANGED <<uiVars, padVars, appVars>>
    \/ ClockCall /\ UNCHANGED <<uiVars, padVars, appVars>>
    \/ ClockSleep /\ UNCHANGED <<uiVars, padVars, appVars>>

SpecTime == InitTime /\ [][NextTime]_vars

\* The pads under any sequence of the user's commands, the Clock left aside.
InitPad == ClockInit /\ UiInit /\ PadInit(OnePad) /\ AppInit

NextPad ==
    \/ \E p \in Pads, fname \in Paths : do_load(p, fname) /\ UNCHANGED <<clockVars, appVars>>
    \/ do_load_config /\ UNCHANGED <<clockVars, appVars>>
    \/ showerror_return /\ UNCHANGED <<clockVars, appVars>>
    \/ \E p \in Pads : play(p) /\ UNCHANGED <<clockVars, appVars>>
    \/ \E p \in Pads : on_click(p) /\ UNCHANGED <<clockVars, appVars>>
    \/ \E p \in Pads : reset(p) /\ UNCHANGED <<clockVars, appVars>>
    \/ reset_config /\ UNCHANGED <<clockVars, appVars>>
    \/ \E p \in Pads : \E u \in 1..Len(units[p]) : run_start_callback(p, u) /\ UNCHANGED <<uiVars, clockVars, appVars>>
    \/ \E p \in Pads : \E u \in 1..Len(units[p]) : run_play(p, u) /\ UNCHANGED <<uiVars, clockVars, appVars>>
    \/ \E p \in Pads : \E u \in 1..Len(units[p]) : run_wait_done(p, u) /\ UNCHANGED <<uiVars, clockVars, appVars>>
    \/ \E p \in Pads : \E u \in 1..Len(units[p]) : run_stop_callback(p, u) /\ UNCHANGED <<uiVars, clockVars, appVars>>

SpecPad == InitPad /\ [][NextPad]_vars

\* A pad played through on_click alone (left click or digit key): the Play
\* command of its menu is never used.
NextClick ==
    \/ \E p \in Pads, fname \in Paths : do_load(p, fname) /\ UNCHANGED <<clockVars, appVars>>
    \/ do_load_config /\ UNCHANGED <<clockVars, appVars>>
    \/ showerror_return /\ UNCHANGED <<clockVars, appVars>>
    \/ \E p \in Pads : on_click(p) /\ UNCHANGED <<clockVars, appVars>>
    \/ \E p \in Pads : reset(p) /\ UNCHANGED <<clockVars, appVars>>
    \/ reset_config /\ UNCHANGED <<clockVars, appVars>>
    \/ \E p \in Pads : \E u \in 1..Len(units[p]) : run_start_callback(p, u) /\ UNCHANGED <<uiVars, clockVars, appVars>>
    \/ \E p \in Pads : \E u \in 1..Len(units[p]) : run_play(p, u) /\ UNCHANGED <<uiVars, clockVars, appVars>>
    \/ \E p \in Pads : \E u \in 1..Len(units[p]) : run_wait_done(p, u) /\ UNCHANGED <<uiVars, clockVars, appVars>>
    \/ \E p \in Pads : \E u \in 1..Len(units[p]) : run_stop_callback(p, u) /\ UNCHANGED <<uiVars, clockVars, appVars>>

SpecClick == InitPad /\ [][NextClick]_vars

\* PyCart.open over the first pads of the grid, each resettable from its menu.
OpenPads == 1..MaxConf

Confs == UNION {[1..n -> Entries] : n \in 0..MaxConf}

InitOpen == ClockInit /\ UiInit /\ PadInit(OpenPads) /\ AppInit

NextOpen ==
    \/ \E pads \in Confs : open(pads) /\ UNCHANGED <<clockVars, tops, destroyed, shutdown>>
    \/ open_for /\ UNCHANGED <<clockVars, tops, destroyed, shutdown>>
    \/ open_do_load_config /\ UNCHANGED <<clockVars, tops, destroyed, shutdown>>
    \/ open_showerror_return /\ UNCHANGED <<clockVars, tops, destroyed, shutdown>>
    \/ open_return /\ UNCHANGED <<clockVars, tops, destroyed, shutdown>>
    \/ \E p \in Pads : reset(p) /\ UNCHANGED <<clockVars, appVars>>
    \/ reset_config /\ UNCHANGED <<clockVars, appVars>>

SpecOpen == InitOpen /\ [][NextOpen]_vars

\* The application as PyCart.__init__ leaves it: the Clock started, create_clock's
\* "mini" observer registered, one pad followed from load to playback, and quit.
InitQuit ==
    /\ enabled = TRUE
    /\ callbacks = DictSet(<<>>, "mini", "update")
    /\ clockPc = "loop"
    /\ now = NoInstant
    /\ it = NoIterator
    /\ cb = Hole
    /\ calls = <<>>
    /\ tickChanged = FALSE
    /\ clockExc = "none"
    /\ stopReturned = FALSE
    /\ UiInit
    /\ PadInit(OnePad)
    /\ AppInit

NextQuit ==
    \/ ClockLoopTest /\ UNCHANGED <<uiVars, padVars, appVars>>
    \/ ClockCompute(SampleInstants) /\ UNCHANGED <<uiVars, padVars, appVars>>
    \/ ClockIter /\ UNCHANGED <<uiVars, padVars, appVars>>
    \/ ClockForNext /\ UNCHANGED <<uiVars, padVars, appVars>>
    \/ ClockCallUpdate /\ UNCHANGED <<uiVars, padVars, appVars>>
    \/ ClockSleep /\ UNCHANGED <<uiVars, padVars, appVars>>
    \/ \E p \in Pads, fname \in ValidPaths : do_load(p, fname) /\ UNCHANGED <<clockVars, appVars>>
    \/ do_load_config /\ UNCHANGED <<clockVars, appVars>>
    \/ \E p \in Pads : play(p) /\ UNCHANGED <<clockVars, appVars>>
    \/ \E p \in Pads : on_click(p) /\ UNCHANGED <<clockVars, appVars>>
    \/ \E p \in Pads : \E u \in 1..Len(units[p]) : run_start_callback(p, u) /\ UNCHANGED <<uiVars, clockVars, appVars>>
    \/ \E p \in Pads : \E u \in 1..Len(units[p]) : run_play(p, u) /\ UNCHANGED <<uiVars, clockVars, appVars>>
    \/ \E p \in Pads : \E u \in 1..Len(units[p]) : run_wait_done(p, u) /\ UNCHANGED <<uiVars, clockVars, appVars>>
    \/ \E p \in Pads : \E u \in 1..Len(units[p]) : run_stop_callback(p, u) /\ UNCHANGED <<uiVars, clockVars, appVars>>
    \/ quit /\ UNCHANGED padVars
    \/ quit_join /\ UNCHANGED padVars
    \/ quit_stop_all /\ UNCHANGED padVars
    \/ quit_destroy /\ UNCHANGED padVars

SpecQuit == InitQuit /\ [][NextQuit]_vars

\* The studio clocks: the Clock thread, "mini" registered, and windows opened
\* from the menu and closed by their Close button.
NextStudio ==
    \/ ClockLoopTest /\ UNCHANGED <<uiVars, padVars, appVars>>
    \/ ClockCompute(SampleInstants) /\ UNCHANGED <<uiVars, padVars, appVars>>
    \/ ClockIter /\ UNCHANGED <<uiVars, padVars, appVars>>
    \/ ClockForNext /\ UNCHANGED <<uiVars, padVars, appVars>>
    \/ ClockCallUpdate /\ UNCHANGED <<uiVars, padVars, appVars>>
    \/ ClockSleep /\ UNCHANGED <<uiVars, padVars, appVars>>
    \/ \E clock_id \in Uuids : show_clock(clock_id) /\ UNCHANGED padVars
    \/ \E clock_id \in Uuids : close(clock_id) /\ UNCHANGED padVars
    \/ close_remove /\ UNCHANGED padVars

SpecStudio == InitQuit /\ [][NextStudio]_vars

\* The whole program: the Clock, the pads, one UI thread.
Init == ClockInit /\ UiInit /\ PadInit(OnePad) /\ AppInit

Next == NextClock \/ NextPad

Spec == Init /\ [][Next]_vars

\* ------------------------------------------------------------ the claims

SecondsToNextHour(t) == 3600 - (60 * t.minute + t.second)

DigitVal(c) == CHOOSE d \in 0..9 : DigitChar(d) = c

TwoDigitVal(str, i) == 10 * DigitVal(str[i]) + DigitVal(str[i + 1])

\* C1 (as amended): every observer invocation of a tick at HH:MM:SS gets
\* current_time = "HH:MM:SS" and remaining = "-mm:ss", the time left until the
\* next whole hour: ss = (60 - SS) mod 60 and mm = the whole minutes of
\* 3600 - (60 MM + SS), which is 60 - MM when SS = 0 and 59 - MM otherwise.
C1_RemainingToNextHour ==
    \A i \in 1..Len(calls) :
        LET c == calls[i].current_time
            r == calls[i].remaining
        IN  /\ Len(c) = 8 /\ c[3] = ":" /\ c[6] = ":"
            /\ TwoDigitVal(c, 1) = now.hour
            /\ TwoDigitVal(c, 4) = now.minute
            /\ TwoDigitVal(c, 7) = now.second
            /\ Len(r) = 6 /\ r[1] = "-" /\ r[4] = ":"
            /\ TwoDigitVal(r, 2) = SecondsToNextHour(now) \div 60
            /\ TwoDigitVal(r, 5) = (60 - now.second) % 60
            /\ now.second = 0 => TwoDigitVal(r, 2) = 60 - now.minute
            /\ now.second # 0 => TwoDigitVal(r, 2) = 59 - now.minute

\* C1, witness: a tick at 14:59:47 has passed "14:59:47" and "-00:13".
C1_Witness ==
    \E i \in 1..Len(calls) :
        /\ calls[i].current_time = <<"1", "4", ":", "5", "9", ":", "4", "7">>
        /\ calls[i].remaining = <<"-", "0", "0", ":", "1", "3">>

\* C1 as stated: the minutes field of remaining is always 00 (the time left
\* until the next whole minute), and remaining is "-00:00" whenever SS = 0.
C1_Original ==
    \A i \in 1..Len(calls) :
        LET r == calls[i].remaining
        IN  /\ Len(r) = 6
            /\ TwoDigitVal(r, 2) = 0
            /\ TwoDigitVal(r, 5) = (60 - now.second) % 60
            /\ now.second = 0 => r = <<"-", "0", "0", ":", "0", "0">>

CallsOf(k) == {i \in 1..Len(calls) : calls[i].key = k}

\* C2 as stated: a tick during which no registration changed has, when it is
\* over, invoked every registered observer exactly once and nobody else (so no
\* observer removed before it), all with the same (current_time, remaining).
C2_Original ==
    (clockPc \in {"sleep", "failed"} /\ ~tickChanged) =>
        /\ \A k \in Keys(callbacks) : Cardinality(CallsOf(k)) = 1
        /\ \A i \in 1..Len(calls) : calls[i].key \in Keys(callbacks)
        /\ \A i, j \in 1..Len(calls) :
              /\ calls[i].current_time = calls[j].current_time
              /\ calls[i].remaining = calls[j].remaining

\* C3 as stated: whatever add_callback / remove_callback interleaves with the
\* iteration over the observer mapping, the iteration never fails.
C3_Original == clockExc # "RuntimeError"

Lookup(d, k) == d[IndexOf(d, k)].val

\* C4: remove_callback(name) of an unregistered name raises KeyError and leaves
\* the mapping as it was; of a registered name it returns, removes that key
\* and leaves every other key with its callback.
C4_RemoveCallback ==
    [][\A name \in Names : remove_callback(name) =>
          IF name \in Keys(callbacks)
          THEN /\ uiExc' = "none"
               /\ Keys(callbacks') = Keys(callbacks) \ {name}
               /\ \A k \in Keys(callbacks') : Lookup(callbacks', k) = Lookup(callbacks, k)
          ELSE /\ uiExc' = "KeyError"
               /\ callbacks' = callbacks]_vars

\* C4, witness: a remove_callback of an unregistered name has raised while
\* other observers are registered.
C4_Witness == uiExc = "KeyError" /\ Keys(callbacks) # {}

\* C5: once a stop() has returned the Clock thread has ended, stays ended, and
\* no observer is invoked any more.
C5_StopReturnsAfterExit ==
    [][/\ stopReturned' => ThreadEnded'
       /\ stopReturned => (clockPc' = clockPc /\ calls' = calls)]_vars

\* C5, witness: stop() has returned with observers still registered.
C5_Witness == stopReturned /\ Keys(callbacks) # {}

\* C6: do_load of a valid audio file raises nothing and shows no error; when
\* it returns the pad holds the sample of that path, is green (Loaded), and
\* shows the last component of the path.
C6_LoadValid ==
    [][\A p \in Pads, fname \in Paths : Content(fname) = "wav" =>
          /\ do_load(p, fname) =>
                /\ uiPc' = "do_load_config" /\ uiExc' = "none"
                /\ file'[p] = [file |-> fname]
          /\ (do_load_config /\ uiArg = [pad |-> p, path |-> fname]) =>
                /\ uiPc' = "idle" /\ uiExc' = "none"
                /\ file'[p] = [file |-> fname]
                /\ bg'[p] = "green"
                /\ text'[p] = fname[Len(fname)]]_vars

\* C6, witness: a pad loaded with home/sfx/b.wav holds that sample and shows
\* "b.wav" on green.
C6_Witness ==
    \E p \in Pads :
        /\ uiPc = "idle"
        /\ file[p] = [file |-> <<"home", "sfx", "b.wav">>]
        /\ text[p] = "b.wav"
        /\ bg[p] = "green"

\* C7 as stated: do_load of an empty file, of a file that is no audio, or of a
\* path that does not exist leaves the pad as it was, and the error is shown
\* to the user, no exception leaving do_load.
C7_Original ==
    [][\A p \in Pads, fname \in Paths :
          (Content(fname) \in {"empty", "text", "missing"} /\ do_load(p, fname)) =>
              /\ uiPc' = "showerror"
              /\ uiExc' = "none"
              /\ UNCHANGED padVars]_vars

\* C8: reset, from whatever state, leaves the pad without a sample, in its
\* default colour, showing its id; play (and a click) on a pad without a
\* sample starts no thread and changes nothing of the pad.
C8_Reset ==
    [][\A p \in Pads :
          /\ reset(p) => (file'[p] = NoFile /\ uiPc' = "reset_config" /\ uiArg'.pad = p)
          /\ (reset_config /\ uiArg.pad = p) =>
                /\ uiPc' = "idle"
                /\ file'[p] = NoFile
                /\ bg'[p] = "default"
                /\ text'[p] = DigitChar(p)
          /\ ((play(p) \/ on_click(p)) /\ file[p] = NoFile) => UNCHANGED padVars]_vars

\* C8, witness: a pad reset while its sample was playing: no sample, default
\* colour, the playback thread still in wait_done.
C8_Witness ==
    \E p \in Pads :
        /\ uiPc = "idle"
        /\ file[p] = NoFile
        /\ bg[p] = "default"
        /\ \E u \in 1..Len(units[p]) : units[p][u] = "wait_done"

Calls(p, ev, u) == {i \in 1..Len(trace[p]) : trace[p][i] = <<ev, u>>}

\* C9: every playback thread has called on_start exactly once by the time
\* audio begins, and on_stop exactly once when it has ended and not before,
\* on_start first; when no play was issued before the previous one's
\* on_stop, the pad's notifications are start, stop, start, stop, ... of the
\* plays in order.
C9_StartStopOnce ==
    \A p \in Pads :
        /\ \A u \in 1..Len(units[p]) :
              /\ Cardinality(Calls(p, "on_start", u)) = IF units[p][u] = "start_callback" THEN 0 ELSE 1
              /\ Cardinality(Calls(p, "on_stop", u)) = IF units[p][u] = "done" THEN 1 ELSE 0
              /\ \A i \in Calls(p, "on_start", u), j \in Calls(p, "on_stop", u) : i < j
        /\ Len(trace[p]) <= 2 * Len(units[p])
        /\ ~overlap[p] =>
              \A i \in 1..Len(trace[p]) :
                  trace[p][i] = <<IF i % 2 = 1 THEN "on_start" ELSE "on_stop", (i + 1) \div 2>>

\* C9, witness: two plays, the second after the first one's on_stop, both ended.
C9_Witness == \E p \in Pads : ~overlap[p] /\ Len(trace[p]) = 4

\* C10 as stated: no pad ever has two playback threads that have not ended.
C10_Original == \A p \in Pads : Cardinality(Running(p)) <= 1

\* C11: when open ends, every entry that names a valid WAV file has been loaded
\* onto the pad of its position, whatever the other entries are.
C11_Original ==
    [][(uiPc = "open_for" /\ uiPc' = "idle") =>
         \A i \in 1..Len(conf) :
            ("file" \in DOMAIN conf[i] /\ conf[i].file \in ValidPaths) =>
               /\ file'[i] = [file |-> conf[i].file]
               /\ text'[i] = Path_name(conf[i].file)
               /\ bg'[i] = "green"]_vars

QuitSteps == <<"clock.stop", "sa.stop_all", "master.destroy">>

\* C12: quit completes its steps in the order clock.stop(), sa.stop_all(),
\* master.destroy(): the Clock thread has ended before stop_all is called, and
\* the window is destroyed only after stop_all.
C12_QuitOrder ==
    /\ shutdown = SubSeq(QuitSteps, 1, Len(shutdown))
    /\ Len(shutdown) >= 1 => (ThreadEnded /\ ~enabled)
    /\ destroyed <=> Len(shutdown) = 3

\* quit has run to its end while a playback thread was in flight
C12_Witness ==
    /\ destroyed
    /\ shutdown = QuitSteps
    /\ \E p \in Pads : units[p] # <<>>

\* C19: once master.destroy() has run, no _on_start and no _on_stop is called on
\* any pad.
C19_Original == [][destroyed => trace' = trace]_vars

\* C13: a stop() called after an earlier stop() has returned finds the thread
\* ended, so its join() returns at once; it returns without an exception and
\* leaves enabled false and the thread ended.
C13_SecondStop ==
    [][(stopReturned /\ uiPc = "join") =>
         /\ ThreadEnded /\ ~enabled
         /\ uiPc' = "idle" /\ uiExc' = "none"
         /\ ~enabled' /\ ThreadEnded']_vars

\* a second stop() is waiting in join()
C13_Witness == stopReturned /\ uiPc = "join"

\* C14: whenever no handler is under way, a pad shows its default background
\* exactly when it holds no sample.
C14_Original ==
    uiPc = "idle" => \A p \in Pads : (bg[p] = "default") <=> (file[p] = NoFile)

\* the playback threads of pad p that have called start_callback and have not ended
Between(p) == {u \in 1..Len(units[p]) : units[p][u] \in {"play", "wait_done", "stop_callback"}}

\* C15: whenever no handler is under way, a pad is red and disabled exactly when
\* one of its playback threads is between its start_callback and its stop_callback.
C15_Original ==
    uiPc = "idle" => \A p \in Pads : (bg[p] = "red" /\ state[p] = "disabled") <=> (Between(p) # {})

\* C16: an observer that raises does not end the tick: the loop goes on to the
\* observers after it, and the thread does not end.
C16_Original == [][(clockPc = "call" /\ clockExc' = "ObserverError") => clockPc' = "next"]_vars

\* C18: with on_click as the only trigger, no playback thread of a pad is
\* started while an earlier one of that pad has not ended.
C18_Original == \A p \in Pads : ~overlap[p]

\* C17: once stop() has set enabled to false the loop test starts no further
\* tick, the thread ends, and the stop() that waits in join() returns.
C17_StopTerminates ==
    /\ [][(~enabled /\ clockPc = "loop") => clockPc' \in {"loop", "terminated"}]_vars
    /\ (uiPc = "join") ~> (uiPc = "idle" /\ stopReturned /\ ThreadEnded)

\* stop() has returned, and the thread left its loop by the test
C17_Witness == stopReturned /\ clockPc = "terminated" /\ clockExc = "none"

\* C20: the Clock thread never calls the update closure of a studio clock whose
\* Toplevel has been destroyed.
C20_Original == [][(clockPc = "call" /\ clockPc' # "call") => ~WidgetsGone(cb.key)]_vars

====
